---- MODULE Spec2Model ----
(***************************************************************************)
(* ConfigManager of config_manager.py: two layered JSON documents (shared  *)
(* config.json, local config.local.json), dotted-path get/set, the domain  *)
(* accessors, persistence and create_gitignore.                            *)
(*                                                                         *)
(* Python dicts are objects with identity: `heap` holds every dict of the  *)
(* process, and a document is the identity of its root dict.  A JSON text  *)
(* on disk is a tree with no sharing.  Values carry a tag `t`:             *)
(*   null, int, str, list (a sequence of trees), ref (a dict on the heap), *)
(*   map (a dict inside a tree).                                           *)
(***************************************************************************)
EXTENDS Integers, Sequences, FiniteSets, TLC

VARIABLES
    heap,            \* the dict objects, by identity (index)
    shared_config,   \* self.shared_config: identity of the root dict, 0 = no instance
    local_config,    \* self.local_config
    shared_file,     \* content of config.json
    local_file,      \* content of config.local.json
    gitignore,       \* content of .gitignore
    disk,            \* the paths os.path.exists answers True for
    writable,        \* whether files of base_dir can be opened for writing
    ret,             \* the last call: its name, arguments, result, whether it raised
    added,           \* history: the records passed to add_recent_project, oldest first
    calls            \* history: the number of mutating calls made so far

vars == <<heap, shared_config, local_config, shared_file, local_file,
          gitignore, disk, writable, ret, added, calls>>

---------------------------------------------------------------------------
(* Values *)

Null == [t |-> "null", v |-> 0]
Num(n) == [t |-> "int", v |-> n]
Str(s) == [t |-> "str", v |-> s]
List(s) == [t |-> "list", v |-> s]
Ref(i) == [t |-> "ref", v |-> i]
Map(f) == [t |-> "map", v |-> f]
Bool(b) == [t |-> "bool", v |-> b]

EmptyDict == <<>>

Put(d, k, x) == [j \in DOMAIN d \cup {k} |-> IF j = k THEN x ELSE d[j]]

\* str(Path.home() / "Desktop")
Desktop == "~/Desktop"

---------------------------------------------------------------------------
(* The built-in defaults, as __init__ builds them: eight dicts. *)

DefSharedRoot == 1
DefLocalRoot == 6

DefaultHeap ==
    << \* 1: default_shared_config
       [app |-> Ref(2), capture |-> Ref(3), ocr |-> Ref(5)],
       \* 2: app
       [title |-> Str("Kindle2Markdown"), default_pages |-> Num(100),
        default_page_key |-> Str("right"),
        default_ocr_lang |-> Str("jpn+jpn_vert+eng"),
        window_keyword |-> Str("Kindle for PC")],
       \* 3: capture
       [default_region |-> Ref(4), screenshot_format |-> Str("png"),
        filename_format |-> Str("screenshot_{:04d}.png")],
       \* 4: capture.default_region
       [x |-> Num(0), y |-> Num(0), width |-> Num(1920), height |-> Num(1080)],
       \* 5: ocr
       [tesseract_config |-> Str("--psm 6"),
        supported_languages |->
            List(<<Str("jpn"), Str("jpn_vert"), Str("eng"), Str("jpn+jpn_vert+eng")>>),
        output_format |-> Str("markdown")],
       \* 6: default_local_config
       [paths |-> Ref(7), user_preferences |-> Ref(8)],
       \* 7: paths
       [save_folder |-> Str(Desktop),
        tesseract_cmd |-> Str("C:\\Program Files\\Tesseract-OCR\\tesseract.exe"),
        poppler_path |-> Str("C:\\Program Files\\poppler\\bin")],
       \* 8: user_preferences
       [last_used_region |-> Null, last_save_folder |-> Null,
        recent_projects |-> List(<<>>)] >>

---------------------------------------------------------------------------
(* json.dump / json.load: heap objects to a tree and back. *)

RECURSIVE Serialise(_, _)
Serialise(h, x) ==
    IF x.t = "ref"
    THEN Map([k \in DOMAIN h[x.v] |-> Serialise(h, h[x.v][k])])
    ELSE x

RECURSIVE Materialise(_, _)
RECURSIVE MatMap(_, _, _, _)
\* the objects json.load built for tree x, placed on the heap: [h, v]
Materialise(h, x) ==
    IF x.t = "map"
    THEN MatMap(h, x.v, DOMAIN x.v, EmptyDict)
    ELSE [h |-> h, v |-> x]

MatMap(h, f, ks, acc) ==
    IF ks = {}
    THEN [h |-> Append(h, acc), v |-> Ref(Len(h) + 1)]
    ELSE LET k == CHOOSE j \in ks : TRUE
             m == Materialise(h, f[k])
         IN  MatMap(m.h, f, ks \ {k}, Put(acc, k, m.v))

---------------------------------------------------------------------------
(* _merge_configs *)

RECURSIVE MergeLoop(_, _, _, _)
RECURSIVE MergeConfigsBody(_, _, _)

\* for key, value in user.items(): ...   (result is the copy being built)
MergeLoop(h, result, user, ks) ==
    IF ks = {}
    THEN [h |-> Append(h, result), v |-> Ref(Len(h) + 1)]
    ELSE LET key == CHOOSE j \in ks : TRUE
             value == user[key]
         IN  IF key \in DOMAIN result /\ result[key].t = "ref" /\ value.t = "map"
             THEN LET r == MergeConfigsBody(h, result[key].v, value.v)
                  IN  MergeLoop(r.h, Put(result, key, r.v), user, ks \ {key})
             ELSE LET m == Materialise(h, value)
                  IN  MergeLoop(m.h, Put(result, key, m.v), user, ks \ {key})

\* result = default.copy(); the loop; return result
MergeConfigsBody(h, default, user) == MergeLoop(h, h[default], user, DOMAIN user)

\* a faulty variant of MergeConfigs: result.update(user), nested mappings are replaced
MergeConfigsShallow(h, default, user) ==
    LET m == Materialise(h, Map(user))
    IN  [h |-> Append(m.h, [k \in DOMAIN h[default] \cup DOMAIN user |->
                               IF k \in DOMAIN user THEN m.h[m.v.v][k] ELSE h[default][k]]),
         v |-> Ref(Len(m.h) + 1)]

MergeConfigs(h, default, user) == MergeConfigsBody(h, default, user)

---------------------------------------------------------------------------
(* Files *)

Absent == [t |-> "absent", v |-> 0]       \* no such file
Malformed == [t |-> "malformed", v |-> 0] \* text json.load rejects (JSONDecodeError)
Unreadable == [t |-> "unreadable", v |-> 0] \* exists, open() raises OSError
Json(tree) == [t |-> "json", v |-> tree]  \* well-formed JSON text of that value

\* load_shared_config / load_local_config on default dict `default`:
\* [h, v, raised]; only JSONDecodeError and FileNotFoundError are caught
LoadConfig(h, default, file) ==
    IF file.t = "absent" \/ file.t = "malformed"
    THEN [h |-> Append(h, h[default]), v |-> Ref(Len(h) + 1), raised |-> FALSE]
    ELSE IF file.t = "unreadable"
    THEN [h |-> h, v |-> Null, raised |-> TRUE]
    ELSE IF file.v.t # "map"
    THEN [h |-> h, v |-> Null, raised |-> TRUE]   \* user.items(): AttributeError
    ELSE LET r == MergeConfigs(h, default, file.v.v)
         IN  [h |-> r.h, v |-> r.v, raised |-> FALSE]

load_shared_config(h, file) == LoadConfig(h, DefSharedRoot, file)

load_local_config(h, file) == LoadConfig(h, DefLocalRoot, file)

\* json.dump(document, f, indent=2, ensure_ascii=False) as save_*_config calls it:
\* [file, ok]
SaveConfig(h, root, file, w) ==
    IF w
    THEN [file |-> Json(Serialise(h, Ref(root))), ok |-> TRUE]
    ELSE [file |-> file, ok |-> FALSE]

---------------------------------------------------------------------------
(* Dotted paths: key_path.split('.') on a text of key chunks and dots. *)

Dot == "."

RECURSIVE SplitFrom(_, _, _)
SplitFrom(text, i, cur) ==
    IF i > Len(text) THEN <<cur>>
    ELSE IF text[i] = Dot THEN <<cur>> \o SplitFrom(text, i + 1, "")
    ELSE SplitFrom(text, i + 1, text[i])

Split(key_path) == SplitFrom(key_path, 1, "")

---------------------------------------------------------------------------
(* _get_nested_value / _set_nested_value *)

RECURSIVE GetWalk(_, _, _)
\* for key in keys: current = current[key]; KeyError and TypeError give None
GetWalk(h, current, keys) ==
    IF keys = <<>> THEN current
    ELSE IF current.t # "ref" THEN Null
    ELSE IF keys[1] \notin DOMAIN h[current.v] THEN Null
    ELSE GetWalk(h, h[current.v][keys[1]], Tail(keys))

_get_nested_value(h, config, key_path) == GetWalk(h, Ref(config), Split(key_path))

RECURSIVE SetWalkNoCreate(_, _, _, _)
\* a faulty variant of SetWalk: a missing intermediate key is not created (KeyError)
SetWalkNoCreate(h, current, keys, value) ==
    IF current.t # "ref" THEN [h |-> h, raised |-> TRUE]
    ELSE IF Len(keys) = 1
    THEN [h |-> [h EXCEPT ![current.v] = Put(@, keys[1], value)], raised |-> FALSE]
    ELSE IF keys[1] \notin DOMAIN h[current.v]
    THEN [h |-> h, raised |-> TRUE]
    ELSE SetWalkNoCreate(h, h[current.v][keys[1]], Tail(keys), value)

RECURSIVE SetWalk(_, _, _, _)
\* [h, raised]: indexing or assigning into anything but a dict raises TypeError
SetWalk(h, current, keys, value) ==
    IF current.t # "ref" THEN [h |-> h, raised |-> TRUE]
    ELSE IF Len(keys) = 1
    THEN [h |-> [h EXCEPT ![current.v] = Put(@, keys[1], value)], raised |-> FALSE]
    ELSE IF keys[1] \notin DOMAIN h[current.v]
    THEN LET n == Len(h) + 1
             h1 == Append([h EXCEPT ![current.v] = Put(@, keys[1], Ref(n))], EmptyDict)
         IN  SetWalk(h1, Ref(n), Tail(keys), value)
    ELSE SetWalk(h, h[current.v][keys[1]], Tail(keys), value)

_set_nested_value(h, config, key_path, value) ==
    SetWalk(h, Ref(config), Split(key_path), value)

\* a faulty variant of get: `if value:` in place of `if value is not None:`
get_if_truthy(h, lc, sc, key_path, default) ==
    LET l == _get_nested_value(h, lc, key_path)
        s == _get_nested_value(h, sc, key_path)
        falsy == {Null, Num(0), Str(""), List(<<>>)}
    IN  IF l \notin falsy THEN l ELSE IF s \notin falsy THEN s ELSE default

\* get(key_path, default)
get(h, lc, sc, key_path, default) ==
    LET l == _get_nested_value(h, lc, key_path)
        s == _get_nested_value(h, sc, key_path)
    IN  IF l # Null THEN l ELSE IF s # Null THEN s ELSE default

---------------------------------------------------------------------------
(* The domain accessors, as functions of the state they read. *)

LastUsedRegionPath == <<"user_preferences", Dot, "last_used_region">>
DefaultRegionPath == <<"capture", Dot, "default_region">>
LastSaveFolderPath == <<"user_preferences", Dot, "last_save_folder">>
SaveFolderPath == <<"paths", Dot, "save_folder">>
RecentProjectsPath == <<"user_preferences", Dot, "recent_projects">>

\* Python truth value of x
Truthy(h, x) ==
    CASE x.t = "null" -> FALSE
      [] x.t = "bool" -> x.v
      [] x.t = "int" -> x.v # 0
      [] x.t = "str" -> x.v # ""
      [] x.t = "list" -> x.v # <<>>
      [] x.t = "map" -> DOMAIN x.v # {}
      [] x.t = "ref" -> DOMAIN h[x.v] # {}

HardcodedRegion == Map([x |-> Num(0), y |-> Num(0), width |-> Num(1920), height |-> Num(1080)])

get_capture_region(h, lc, sc) ==
    LET region == get(h, lc, sc, LastUsedRegionPath, Null)
        region2 == get(h, lc, sc, DefaultRegionPath, Null)
    IN  IF Truthy(h, region) THEN region
        ELSE IF Truthy(h, region2) THEN region2
        ELSE HardcodedRegion

\* os.path.exists(x): a str is a path, an int a file descriptor, anything else a TypeError
PathExistsRaises(x) == x.t \notin {"str", "int"}

\* a faulty variant of get_save_folder: os.path.exists is not asked
get_save_folder_unchecked(h, lc, sc, d) ==
    LET folder == get(h, lc, sc, LastSaveFolderPath, Null)
        folder2 == get(h, lc, sc, SaveFolderPath, Null)
    IN  IF Truthy(h, folder) THEN [val |-> folder, raised |-> FALSE]
        ELSE IF Truthy(h, folder2) THEN [val |-> folder2, raised |-> FALSE]
        ELSE [val |-> Str(Desktop), raised |-> FALSE]

\* [val, raised]
get_save_folder(h, lc, sc, d) ==
    LET folder == get(h, lc, sc, LastSaveFolderPath, Null)
        folder2 == get(h, lc, sc, SaveFolderPath, Null)
    IN  IF Truthy(h, folder) /\ PathExistsRaises(folder)
        THEN [val |-> Null, raised |-> TRUE]
        ELSE IF Truthy(h, folder) /\ folder \in d
        THEN [val |-> folder, raised |-> FALSE]
        ELSE IF Truthy(h, folder2)
        THEN [val |-> folder2, raised |-> FALSE]
        ELSE [val |-> Str(Desktop), raised |-> FALSE]

get_recent_projects(h, lc, sc) == get(h, lc, sc, RecentProjectsPath, List(<<>>))

\* p.get("title") of a list element or of project_info
TitleOf(p) == IF "title" \in DOMAIN p.v THEN p.v["title"] ELSE Null

\* what `for p in recent` iterates over: [items, raised]; p.get raises on a non-dict p
IterRecent(h, recent) ==
    CASE recent.t = "list" ->
            [items |-> recent.v, raised |-> \E i \in 1..Len(recent.v) : recent.v[i].t # "map"]
      [] recent.t = "str" -> [items |-> <<>>, raised |-> recent.v # ""]
      [] recent.t = "ref" -> [items |-> <<>>, raised |-> DOMAIN h[recent.v] # {}]
      [] OTHER -> [items |-> <<>>, raised |-> TRUE]

\* the entries of maximum number kept by add_recent_project
MaxRecent == 10

RECURSIVE Without(_, _)
\* [p for p in recent if p.get("title") != title]
Without(items, title) ==
    IF items = <<>> THEN <<>>
    ELSE IF TitleOf(Head(items)) # title
    THEN <<Head(items)>> \o Without(Tail(items), title)
    ELSE Without(Tail(items), title)

\* a faulty variant of Truncate: one entry too many is kept
TruncateLate(items) ==
    SubSeq(items, 1, IF Len(items) < MaxRecent + 1 THEN Len(items) ELSE MaxRecent + 1)

Truncate(items) == SubSeq(items, 1, IF Len(items) < MaxRecent THEN Len(items) ELSE MaxRecent)

\* a faulty variant of NewRecent: the new record goes to the back
NewRecentAtBack(items, project_info) ==
    Truncate(Without(items, TitleOf(project_info)) \o <<project_info>>)

\* the list add_recent_project stores
NewRecent(items, project_info) ==
    Truncate(<<project_info>> \o Without(items, TitleOf(project_info)))

---------------------------------------------------------------------------
(* The state after ConfigManager(base_dir) with the given files on disk. *)

NoPath == <<>>

Result(op, path, arg, val, raised) ==
    [op |-> op, path |-> path, arg |-> arg, val |-> val, raised |-> raised]

\* __init__: the defaults, then load_shared_config, then load_local_config:
\* [h, sc, lc, raised]
Construct(sf, lf) ==
    LET s == load_shared_config(DefaultHeap, sf)
        l == load_local_config(s.h, lf)
    IN  IF s.raised THEN [h |-> DefaultHeap, sc |-> 0, lc |-> 0, raised |-> TRUE]
        ELSE IF l.raised THEN [h |-> s.h, sc |-> 0, lc |-> 0, raised |-> TRUE]
        ELSE [h |-> l.h, sc |-> s.v.v, lc |-> l.v.v, raised |-> FALSE]

InitWith(sf, lf, gi, d, w) ==
    LET c == Construct(sf, lf)
    IN  /\ heap = c.h
        /\ shared_config = c.sc
        /\ local_config = c.lc
        /\ shared_file = sf
        /\ local_file = lf
        /\ gitignore = gi
        /\ disk = d
        /\ writable = w
        /\ ret = Result("__init__", NoPath, Null, Null, c.raised)
        /\ added = <<>>
        /\ calls = 0

Alive == local_config # 0

---------------------------------------------------------------------------
(* The operations of ConfigManager. *)

LoadSharedConfig ==
    /\ Alive
    /\ LET r == load_shared_config(heap, shared_file)
       IN  /\ heap' = r.h
           /\ ret' = Result("load_shared_config", NoPath, Null, r.v, r.raised)
    /\ calls' = calls + 1
    /\ UNCHANGED <<shared_config, local_config, shared_file, local_file,
                   gitignore, disk, writable, added>>

LoadLocalConfig ==
    /\ Alive
    /\ LET r == load_local_config(heap, local_file)
       IN  /\ heap' = r.h
           /\ ret' = Result("load_local_config", NoPath, Null, r.v, r.raised)
    /\ calls' = calls + 1
    /\ UNCHANGED <<shared_config, local_config, shared_file, local_file,
                   gitignore, disk, writable, added>>

SaveSharedConfig ==
    /\ Alive
    /\ LET r == SaveConfig(heap, shared_config, shared_file, writable)
       IN  /\ shared_file' = r.file
           /\ ret' = Result("save_shared_config", NoPath, Null, Bool(r.ok), FALSE)
    /\ calls' = calls + 1
    /\ UNCHANGED <<heap, shared_config, local_config, local_file,
                   gitignore, disk, writable, added>>

SaveLocalConfig ==
    /\ Alive
    /\ LET r == SaveConfig(heap, local_config, local_file, writable)
       IN  /\ local_file' = r.file
           /\ ret' = Result("save_local_config", NoPath, Null, Bool(r.ok), FALSE)
    /\ calls' = calls + 1
    /\ UNCHANGED <<heap, shared_config, local_config, shared_file,
                   gitignore, disk, writable, added>>

Get(key_path, default) ==
    /\ Alive
    /\ ret' = Result("get", key_path, default,
                     get(heap, local_config, shared_config, key_path, default), FALSE)
    /\ UNCHANGED <<heap, shared_config, local_config, shared_file, local_file,
                   gitignore, disk, writable, added, calls>>

SetShared(key_path, value) ==
    /\ Alive
    /\ LET r == _set_nested_value(heap, shared_config, key_path, value)
       IN  /\ heap' = r.h
           /\ ret' = Result("set_shared", key_path, value, Null, r.raised)
    /\ calls' = calls + 1
    /\ UNCHANGED <<shared_config, local_config, shared_file, local_file,
                   gitignore, disk, writable, added>>

SetLocal(key_path, value) ==
    /\ Alive
    /\ LET r == _set_nested_value(heap, local_config, key_path, value)
       IN  /\ heap' = r.h
           /\ ret' = Result("set_local", key_path, value, Null, r.raised)
    /\ calls' = calls + 1
    /\ UNCHANGED <<shared_config, local_config, shared_file, local_file,
                   gitignore, disk, writable, added>>

\* a faulty variant of SetLocalAndSave: save_local_config() is not called
SetLocalWithoutSave(h, lc, file, w, key_path, value) ==
    LET r == _set_nested_value(h, lc, key_path, value)
    IN  [h |-> r.h, file |-> file, raised |-> r.raised]

\* self.set_local(key_path, value); self.save_local_config(): [h, file, raised]
SetLocalAndSave(h, lc, file, w, key_path, value) ==
    LET r == _set_nested_value(h, lc, key_path, value)
    IN  IF r.raised
        THEN [h |-> r.h, file |-> file, raised |-> TRUE]
        ELSE [h |-> r.h, file |-> SaveConfig(r.h, lc, file, w).file, raised |-> FALSE]

\* region = {"x": x, "y": y, "width": width, "height": height}
RegionDict(x, y, width, height) ==
    [x |-> Num(x), y |-> Num(y), width |-> Num(width), height |-> Num(height)]

SetRegion(op, x, y, width, height) ==
    /\ Alive
    /\ LET h1 == Append(heap, RegionDict(x, y, width, height))
           region == Ref(Len(heap) + 1)
           r == SetLocalAndSave(h1, local_config, local_file, writable,
                                LastUsedRegionPath, region)
       IN  /\ heap' = r.h
           /\ local_file' = r.file
           /\ ret' = Result(op, LastUsedRegionPath, Serialise(h1, region), Null, r.raised)
    /\ calls' = calls + 1
    /\ UNCHANGED <<shared_config, local_config, shared_file,
                   gitignore, disk, writable, added>>

UpdateCaptureRegion(x, y, width, height) ==
    SetRegion("update_capture_region", x, y, width, height)

SetCaptureRegion(x, y, width, height) ==
    SetRegion("set_capture_region", x, y, width, height)

GetCaptureRegion ==
    /\ Alive
    /\ ret' = Result("get_capture_region", NoPath, Null,
                     get_capture_region(heap, local_config, shared_config), FALSE)
    /\ UNCHANGED <<heap, shared_config, local_config, shared_file, local_file,
                   gitignore, disk, writable, added, calls>>

GetSaveFolder ==
    /\ Alive
    /\ LET r == get_save_folder(heap, local_config, shared_config, disk)
       IN  ret' = Result("get_save_folder", NoPath, Null, r.val, r.raised)
    /\ UNCHANGED <<heap, shared_config, local_config, shared_file, local_file,
                   gitignore, disk, writable, added, calls>>

SetSaveFolder(folder_path) ==
    /\ Alive
    /\ LET r == SetLocalAndSave(heap, local_config, local_file, writable,
                                LastSaveFolderPath, folder_path)
       IN  /\ heap' = r.h
           /\ local_file' = r.file
           /\ ret' = Result("set_save_folder", LastSaveFolderPath, folder_path, Null, r.raised)
    /\ calls' = calls + 1
    /\ UNCHANGED <<shared_config, local_config, shared_file,
                   gitignore, disk, writable, added>>

AddRecentProject(project_info) ==
    /\ Alive
    /\ LET recent == get(heap, local_config, shared_config, RecentProjectsPath, List(<<>>))
           it == IterRecent(heap, recent)
           value == List(NewRecent(it.items, project_info))
           r == SetLocalAndSave(heap, local_config, local_file, writable,
                                RecentProjectsPath, value)
       IN  IF it.raised
           THEN /\ ret' = Result("add_recent_project", RecentProjectsPath, project_info,
                                 Null, TRUE)
                /\ UNCHANGED <<heap, local_file, added>>
           ELSE /\ heap' = r.h
                /\ local_file' = r.file
                /\ ret' = Result("add_recent_project", RecentProjectsPath, project_info,
                                 Null, r.raised)
                /\ added' = IF r.raised THEN added ELSE Append(added, project_info)
    /\ calls' = calls + 1
    /\ UNCHANGED <<shared_config, local_config, shared_file, gitignore, disk, writable>>

GetRecentProjects ==
    /\ Alive
    /\ ret' = Result("get_recent_projects", NoPath, Null,
                     get_recent_projects(heap, local_config, shared_config), FALSE)
    /\ UNCHANGED <<heap, shared_config, local_config, shared_file, local_file,
                   gitignore, disk, writable, added, calls>>

---------------------------------------------------------------------------
(* create_gitignore.  A text is a sequence of tokens: NL is a newline, any  *)
(* other token is a non-empty run of characters holding no newline; two     *)
(* such runs are never adjacent.                                            *)

NL == "\n"

NoFile == [t |-> "absent", v |-> <<>>]
Text(toks) == [t |-> "text", v |-> toks]

\* the three comment entries stand for the source's Japanese comment lines
entries_to_add ==
    << "# local config file (per PC)",
       "config.local.json",
       "",
       "# OCR output files",
       "output.md",
       "*.md",
       "!README.md",
       "",
       "# screenshots",
       "screenshot_*.png",
       "screenshots/",
       "" >>

RECURSIVE SplitLinesFrom(_, _, _)
\* str.splitlines(): a final newline opens no further line
SplitLinesFrom(toks, i, cur) ==
    IF i > Len(toks) THEN (IF cur = "" THEN <<>> ELSE <<cur>>)
    ELSE IF toks[i] = NL THEN <<cur>> \o SplitLinesFrom(toks, i + 1, "")
    ELSE SplitLinesFrom(toks, i + 1, toks[i])

SplitLines(toks) == SplitLinesFrom(toks, 1, "")

Occurs(x, seq) == \E i \in 1..Len(seq) : seq[i] = x

\* entry.strip() != "": of the fixed entries only "" is blank
NonBlank(entry) == entry # ""

\* a faulty variant of EntriesToWrite: the membership test is dropped
EntriesToWriteUnfiltered(entries, existing_entries) ==
    SelectSeq(entries, NonBlank)

RECURSIVE EntriesToWrite(_, _)
\* the entries that are not in existing_entries and are not blank, in order
EntriesToWrite(entries, existing_entries) ==
    IF entries = <<>> THEN <<>>
    ELSE IF ~Occurs(Head(entries), existing_entries) /\ NonBlank(Head(entries))
    THEN <<Head(entries)>> \o EntriesToWrite(Tail(entries), existing_entries)
    ELSE EntriesToWrite(Tail(entries), existing_entries)

RECURSIVE Join(_)
\* "\n".join(entries)
Join(entries) ==
    IF entries = <<>> THEN <<>>
    ELSE IF Len(entries) = 1 THEN entries
    ELSE <<Head(entries), NL>> \o Join(Tail(entries))

\* what the append writes: a newline when the last existing line is not empty,
\* the joined entries, a newline
Appended(existing_entries, entries_to_write) ==
    (IF existing_entries # <<>> /\ existing_entries[Len(existing_entries)] # ""
     THEN <<NL>> ELSE <<>>) \o Join(entries_to_write) \o <<NL>>

\* [file, raised]: no open() of create_gitignore is guarded
create_gitignore(file, w) ==
    IF file.t = "unreadable" THEN [file |-> file, raised |-> TRUE]
    ELSE LET existing_entries == IF file.t = "absent" THEN <<>> ELSE SplitLines(file.v)
             entries_to_write == EntriesToWrite(entries_to_add, existing_entries)
         IN  IF entries_to_write = <<>> THEN [file |-> file, raised |-> FALSE]
             ELSE IF ~w THEN [file |-> file, raised |-> TRUE]
             ELSE [file |-> Text(file.v \o Appended(existing_entries, entries_to_write)),
                   raised |-> FALSE]

CreateGitignore ==
    /\ Alive
    /\ LET r == create_gitignore(gitignore, writable)
       IN  /\ gitignore' = r.file
           /\ ret' = Result("create_gitignore", NoPath, Null, Null, r.raised)
    /\ calls' = calls + 1
    /\ UNCHANGED <<heap, shared_config, local_config, shared_file, local_file,
                   disk, writable, added>>

---------------------------------------------------------------------------
(* SpecGitignore: create_gitignore on every small initial .gitignore. *)

MaxGitLen == 4
MaxRuns == 2

GitTokens == {NL, "config.local.json", "*.md", "node_modules/"}

\* the texts of at most MaxGitLen tokens
WellFormedText(toks) ==
    \A i \in 1..(Len(toks) - 1) : toks[i] = NL \/ toks[i + 1] = NL

GitTexts ==
    UNION {{toks \in [1..n -> GitTokens] : WellFormedText(toks)} : n \in 0..MaxGitLen}

NonBlankEntries ==
    {entries_to_add[i] : i \in {j \in 1..Len(entries_to_add) : NonBlank(entries_to_add[j])}}

\* every subset of the fixed patterns, in their order, with and without a final newline
PatternTexts ==
    {Join(SelectSeq(entries_to_add, LAMBDA e : e \in S)) \o last :
        S \in SUBSET NonBlankEntries, last \in {<<>>, <<NL>>}}

InitGitignore ==
    \E gi \in {NoFile} \cup {Text(toks) : toks \in GitTexts \cup PatternTexts} :
        InitWith(Absent, Absent, gi, {}, TRUE)

NextGitignore == calls < MaxRuns /\ CreateGitignore

SpecGitignore == InitGitignore /\ [][NextGitignore]_vars

IsPrefix(a, b) == Len(a) <= Len(b) /\ SubSeq(b, 1, Len(a)) = a

Count(x, seq) == Cardinality({i \in 1..Len(seq) : seq[i] = x})

LinesOf(file) == IF file.t = "text" THEN SplitLines(file.v) ELSE <<>>

\* C9: a run of create_gitignore only appends, keeps every line that was there,
\* leaves each non-blank fixed pattern exactly once as a line unless it was there
\* several times before, and a run that follows a run changes nothing.
C9_Run ==
    (ret'.op = "create_gitignore" /\ ~ret'.raised) =>
        /\ gitignore'.t = "text"
        /\ IsPrefix(gitignore.v, gitignore'.v)
        /\ IsPrefix(LinesOf(gitignore), LinesOf(gitignore'))
        /\ \A i \in 1..Len(entries_to_add) :
              NonBlank(entries_to_add[i]) =>
                  Count(entries_to_add[i], LinesOf(gitignore')) =
                      IF Count(entries_to_add[i], LinesOf(gitignore)) = 0
                      THEN 1
                      ELSE Count(entries_to_add[i], LinesOf(gitignore))
        /\ (ret.op = "create_gitignore" /\ ~ret.raised => gitignore' = gitignore)

\* C9: every step of the behaviour is such a run of create_gitignore: idempotent,
\* append-only, each fixed pattern once.
C9_Idempotent == [][C9_Run]_vars

\* a second run was made on a file that began with a pattern and a foreign line
\* and no final newline
C9_Witness ==
    /\ ret.op = "create_gitignore"
    /\ calls = 2
    /\ gitignore.t = "text"
    /\ SubSeq(gitignore.v, 1, 4) = <<"*.md", NL, "node_modules/", NL>>
    /\ Len(gitignore.v) > 4
    /\ gitignore.v[5] # NL

---------------------------------------------------------------------------
(* Reading a document as the JSON tree it denotes, for stating properties. *)

Missing == [t |-> "missing", v |-> 0]

RECURSIVE TreeAt(_, _)
\* the value at the key sequence `keys` of tree x, Missing when there is none
TreeAt(x, keys) ==
    IF keys = <<>> THEN x
    ELSE IF x.t # "map" THEN Missing
    ELSE IF keys[1] \notin DOMAIN x.v THEN Missing
    ELSE TreeAt(x.v[keys[1]], Tail(keys))

LocalTree == Serialise(heap, Ref(local_config))
SharedTree == Serialise(heap, Ref(shared_config))

RecentKeys == <<"user_preferences", "recent_projects">>

LocalRecent == TreeAt(LocalTree, RecentKeys)

Project(title, n) == Map([title |-> Str(title), page |-> Num(n)])

---------------------------------------------------------------------------
(* SpecRecent: add_recent_project from the built-in empty list.  Each call  *)
(* adds either the next unused title or a title added before (the newest,  *)
(* the oldest kept, or the first ever added); the record carries the number *)
(* of the call, so two records of one title differ.                        *)

NTitles == 11
MaxReadds == 1

Titles == <<"A", "B", "C", "D", "E", "F", "G", "H", "I", "J", "K", "L", "M">>

AddedTitles == {TitleOf(added[i]) : i \in 1..Len(added)}

ReaddTitles ==
    IF LocalRecent.t # "list" \/ LocalRecent.v = <<>> \/ added = <<>> THEN {}
    ELSE {TitleOf(LocalRecent.v[1]).v, TitleOf(LocalRecent.v[Len(LocalRecent.v)]).v,
          TitleOf(added[1]).v}

InitRecent == InitWith(Absent, Absent, NoFile, {}, TRUE)

AddNext ==
    /\ Cardinality(AddedTitles) < NTitles
    /\ AddRecentProject(Project(Titles[Cardinality(AddedTitles) + 1], Len(added) + 1))

AddAgain ==
    /\ Len(added) - Cardinality(AddedTitles) < MaxReadds
    /\ \E title \in ReaddTitles : AddRecentProject(Project(title, Len(added) + 1))

NextRecent == AddNext \/ AddAgain \/ GetRecentProjects

SpecRecent == InitRecent /\ [][NextRecent]_vars

\* the indices of `added` that hold the latest record of their title
Latest == {i \in 1..Len(added) :
              \A j \in (i + 1)..Len(added) : TitleOf(added[j]) # TitleOf(added[i])}

\* the k-th most recent of them
KthLatest(k) == CHOOSE i \in Latest : Cardinality({j \in Latest : j > i}) = k - 1

ExpectedRecent ==
    [k \in 1..(IF Cardinality(Latest) < 10 THEN Cardinality(Latest) ELSE 10) |->
        added[KthLatest(k)]]

\* C4: from the empty list, the list is the added records, newest first, one
\* (the latest) per title, cut to the 10 most recently added titles; the file
\* holds the same list, and get_recent_projects returns it.
C4_MostRecentFirst ==
    /\ LocalRecent = List(ExpectedRecent)
    /\ added # <<>> => TreeAt(local_file.v, RecentKeys) = List(ExpectedRecent)
    /\ ret.op = "get_recent_projects" => ret.val = List(ExpectedRecent)

\* eleven titles were added and an evicted or kept title was added again
C4_Witness ==
    /\ Cardinality(AddedTitles) = 11
    /\ Len(added) > 11
    /\ Len(LocalRecent.v) = 10
    /\ TitleOf(LocalRecent.v[1]) = Str("A")
    /\ ret.op = "add_recent_project"

---------------------------------------------------------------------------
(* SpecLoaded: the recent-project list when config.local.json or            *)
(* config.json already hold one, with the setters that reach it.            *)

MaxLoadedCalls == 3

FirstProjects(n) == [i \in 1..n |-> Project(Titles[i], 0)]

RecentLists ==
    { Null,
      List(FirstProjects(2)),
      List(<<Project("A", 1), Project("A", 2)>>),
      List(FirstProjects(10)),
      List(FirstProjects(11)) }

UserPreferences(recent) == Json(Map([user_preferences |-> Map([recent_projects |-> recent])]))

InitLoaded ==
    \E lf \in {Absent} \cup {UserPreferences(x) : x \in RecentLists},
       sf \in {Absent, UserPreferences(List(<<Project("B", 1), Project("B", 2)>>))} :
        InitWith(sf, lf, NoFile, {}, TRUE)

NextLoaded ==
    \/ calls < MaxLoadedCalls /\
           \E title \in {"A", "B", "M"} : AddRecentProject(Project(title, calls + 1))
    \/ calls < MaxLoadedCalls /\
           \E x \in {Null, List(<<Project("A", 1), Project("A", 2)>>)} :
               SetLocal(RecentProjectsPath, x)
    \/ calls < MaxLoadedCalls /\ SetShared(RecentProjectsPath, List(FirstProjects(2)))
    \/ calls < MaxLoadedCalls /\ SetCaptureRegion(1, 2, 3, 4)
    \/ calls < MaxLoadedCalls /\ SetSaveFolder(Str("/x"))
    \/ calls < MaxLoadedCalls /\ SaveLocalConfig
    \/ GetRecentProjects

SpecLoaded == InitLoaded /\ [][NextLoaded]_vars

\* x is a list of records, no two of one title, at most 10 of them
GoodRecent(x) ==
    /\ x.t = "list"
    /\ Len(x.v) <= 10
    /\ \A i \in 1..Len(x.v) : x.v[i].t = "map"
    /\ \A i, j \in 1..Len(x.v) : i # j => TitleOf(x.v[i]) # TitleOf(x.v[j])

\* C3 as claimed: in every reachable state the local list has no two entries of
\* one title and at most 10 entries.
C3_Claimed == Alive /\ LocalRecent.t = "list" => GoodRecent(LocalRecent)

\* C3 as amended: once the local list has distinct titles and at most 10 entries,
\* every operation but set_local keeps it so; and whatever the list was, a call of
\* add_recent_project that returns leaves at most 10 entries, the added record
\* first and no other entry of its title.
C3_Step ==
    /\ (Alive /\ GoodRecent(LocalRecent) /\ ret'.op # "set_local")
           => GoodRecent(LocalRecent')
    /\ (ret'.op = "add_recent_project" /\ ~ret'.raised /\ calls' = calls + 1)
           => /\ LocalRecent'.t = "list"
              /\ Len(LocalRecent'.v) <= 10
              /\ LocalRecent'.v[1] = ret'.arg
              /\ \A i \in 2..Len(LocalRecent'.v) :
                    TitleOf(LocalRecent'.v[i]) # TitleOf(ret'.arg)

\* C3 as amended, of every step: a good list stays good under every operation
\* but set_local, and add_recent_project leaves at most 10 entries, the added
\* title once.
C3_Preserved == [][C3_Step]_vars

\* a new title was added to a loaded list of ten
C3_Witness ==
    /\ ret.op = "add_recent_project"
    /\ ~ret.raised
    /\ local_file.t = "json"
    /\ GoodRecent(LocalRecent)
    /\ Len(LocalRecent.v) = 10
    /\ TitleOf(LocalRecent.v[1]) = Str("M")
    /\ TitleOf(LocalRecent.v[10]) = Str("I")

---------------------------------------------------------------------------
(* SpecMerge: loading every small user document over the built-in defaults. *)

MaxLoads == 2

\* the mappings over any subset of `keys` with values in `values`
MapsOver(keys, values) == {Map(f) : f \in UNION {[ks -> values] : ks \in SUBSET keys}}

LocalUserTrees ==
    MapsOver({"paths", "extra"},
             {Str("/x"), Null} \cup
             MapsOver({"save_folder", "sub"}, {Str("/x"), Map([deep |-> Num(1)])}))

SharedUserTrees ==
    MapsOver({"capture", "app"},
             {Num(5)} \cup
             MapsOver({"default_region", "title"}, {Str("T"), Map([x |-> Num(5)])}))

InitMerge ==
    \/ \E tree \in LocalUserTrees \cup {List(<<>>)} :
          InitWith(Absent, Json(tree), NoFile, {}, TRUE)
    \/ \E tree \in SharedUserTrees : InitWith(Json(tree), Absent, NoFile, {}, TRUE)
    \/ \E sf, lf \in {Absent, Malformed, Unreadable} : InitWith(sf, lf, NoFile, {}, TRUE)

NextMerge ==
    \/ calls < MaxLoads /\ LoadSharedConfig
    \/ calls < MaxLoads /\ LoadLocalConfig

SpecMerge == InitMerge /\ [][NextMerge]_vars

DefaultSharedTree == Serialise(DefaultHeap, Ref(DefSharedRoot))
DefaultLocalTree == Serialise(DefaultHeap, Ref(DefLocalRoot))

RECURSIVE PathsOf(_)
\* the key sequences that lead to a value of tree x
PathsOf(x) ==
    IF x.t # "map" THEN {}
    ELSE UNION {{<<k>>} \cup {<<k>> \o p : p \in PathsOf(x.v[k])} : k \in DOMAIN x.v}

\* the user document holds a non-mapping at a proper prefix of p
Shadowed(user, p) ==
    \E n \in 1..(Len(p) - 1) :
        /\ TreeAt(user, SubSeq(p, 1, n)) # Missing
        /\ TreeAt(user, SubSeq(p, 1, n)).t # "map"

\* every key path of the defaults is a key path of the loaded document
KeepsDefaultPaths(default, loaded) ==
    \A p \in PathsOf(default) : TreeAt(loaded, p) # Missing

\* the amended merge law
MergeLaw(default, user, loaded) ==
    /\ \A p \in PathsOf(default) : ~Shadowed(user, p) => TreeAt(loaded, p) # Missing
    /\ \A p \in PathsOf(user) :
          TreeAt(user, p).t # "map" => TreeAt(loaded, p) = TreeAt(user, p)
    /\ \A p \in PathsOf(default) :
          (TreeAt(user, p) = Missing /\ ~Shadowed(user, p))
              => TreeAt(loaded, p) = TreeAt(default, p)

\* the documents the two loads of this state are about: [default, user, loaded]
Loads ==
    (IF Alive /\ shared_file.t = "json"
     THEN {[default |-> DefaultSharedTree, user |-> shared_file.v, loaded |-> SharedTree]}
     ELSE {})
    \cup
    (IF Alive /\ local_file.t = "json"
     THEN {[default |-> DefaultLocalTree, user |-> local_file.v, loaded |-> LocalTree]}
     ELSE {})
    \cup
    (IF ret.op = "load_shared_config" /\ ~ret.raised /\ shared_file.t = "json"
     THEN {[default |-> DefaultSharedTree, user |-> shared_file.v,
            loaded |-> Serialise(heap, ret.val)]}
     ELSE {})
    \cup
    (IF ret.op = "load_local_config" /\ ~ret.raised /\ local_file.t = "json"
     THEN {[default |-> DefaultLocalTree, user |-> local_file.v,
            loaded |-> Serialise(heap, ret.val)]}
     ELSE {})

\* C1 as claimed: a loaded document contains every key path of the defaults.
C1_Claimed == \A l \in Loads : KeepsDefaultPaths(l.default, l.loaded)

\* C1 as amended: a loaded document contains every key path of the defaults that
\* the user document does not shadow with a non-mapping at a proper prefix; a
\* user non-mapping value is the loaded value at its path; a default path the
\* user document neither mentions nor shadows keeps its built-in value.
C1_Merge == \A l \in Loads : MergeLaw(l.default, l.user, l.loaded)

\* the local file {"paths": {"save_folder": "/x"}} was loaded again
C1_Witness ==
    /\ ret.op = "load_local_config"
    /\ local_file = Json(Map([paths |-> Map([save_folder |-> Str("/x")])]))
    /\ TreeAt(Serialise(heap, ret.val), <<"paths", "save_folder">>) = Str("/x")
    /\ TreeAt(Serialise(heap, ret.val), <<"paths", "poppler_path">>)
           = TreeAt(DefaultLocalTree, <<"paths", "poppler_path">>)

---------------------------------------------------------------------------
(* SpecGet: get on documents that hold, lack or null a path in either layer. *)

MaxGetCalls == 2

AppTitlePath == <<"app", Dot, "title">>

GetPaths ==
    { AppTitlePath, LastSaveFolderPath, SaveFolderPath \o <<Dot, "x">>,
      <<"nothing">>, <<"paths">>, <<>> }

InitGet ==
    \E lf \in { Absent,
                Json(Map([user_preferences |-> Map([last_save_folder |-> Str("/l")])])),
                Json(Map([app |-> Map([title |-> Str("L")]), paths |-> Str("/p")])),
                Json(Map([app |-> Str("L")])) },
       sf \in { Absent,
                Json(Map([user_preferences |-> Map([last_save_folder |-> Str("/s")])])),
                Json(Map([app |-> Map([title |-> Null]), nothing |-> Num(0)])) } :
        InitWith(sf, lf, NoFile, {}, TRUE)

NextGet ==
    \/ calls < MaxGetCalls /\
           \E key_path \in {AppTitlePath, LastSaveFolderPath}, value \in {Null, Str("v")} :
               SetLocal(key_path, value)
    \/ calls < MaxGetCalls /\ \E value \in {Null, Num(0)} : SetShared(AppTitlePath, value)
    \/ \E key_path \in GetPaths, default \in {Null, Str("d")} : Get(key_path, default)

SpecGet == InitGet /\ [][NextGet]_vars

Found(x) == x # Missing /\ x # Null

\* C2: get returns the local value at the path when there is one and it is not
\* null, else the shared one when there is one and it is not null, else the
\* default given; an absent key or a non-mapping on the way is "no value".
C2_Precedence ==
    ret.op = "get" =>
        LET l == TreeAt(LocalTree, Split(ret.path))
            s == TreeAt(SharedTree, Split(ret.path))
        IN  Serialise(heap, ret.val) = IF Found(l) THEN l ELSE IF Found(s) THEN s ELSE ret.arg

\* the local document holds null at the path, the shared one a value, and a
\* default was given
C2_Witness ==
    /\ ret.op = "get"
    /\ ret.arg = Str("d")
    /\ TreeAt(LocalTree, Split(ret.path)) = Null
    /\ Found(TreeAt(SharedTree, Split(ret.path)))
    /\ ret.val = Str("/s")

---------------------------------------------------------------------------
(* SpecPersist: the setters and the saves, and what a fresh ConfigManager   *)
(* on the same directory then reads.                                        *)

MaxPersistCalls == 3

ABCPath == <<"a", Dot, "b", Dot, "c">>

InitPersist ==
    \E lf \in { Absent,
                Json(Map([a |-> Map([b |-> Num(1)])])),
                Json(Map([a |-> Map([x |-> Num(1)]), paths |-> Str("/p")])) },
       w \in BOOLEAN :
        InitWith(Absent, lf, NoFile, {}, w)

NextPersist ==
    \/ calls < MaxPersistCalls /\
           \E key_path \in {ABCPath, SaveFolderPath, <<"a">>}, value \in {Num(5), Null} :
               SetLocal(key_path, value)
    \/ calls < MaxPersistCalls /\ SetShared(ABCPath, Num(5))
    \/ calls < MaxPersistCalls /\ SaveLocalConfig
    \/ calls < MaxPersistCalls /\ SaveSharedConfig
    \/ calls < MaxPersistCalls /\ SetCaptureRegion(1, 2, 3, 4)
    \/ calls < MaxPersistCalls /\ UpdateCaptureRegion(1, 2, 3, 4)
    \/ calls < MaxPersistCalls /\ SetSaveFolder(Str("/x"))
    \/ calls < MaxPersistCalls /\ AddRecentProject(Project("A", calls + 1))
    \/ Get(ABCPath, Null)

SpecPersist == InitPersist /\ [][NextPersist]_vars

\* a new ConfigManager on the files sf and lf: the tree get(key_path) returns
FreshGet(sf, lf, key_path) ==
    LET c == Construct(sf, lf)
    IN  Serialise(c.h, get(c.h, c.lc, c.sc, key_path, Null))

\* a new ConfigManager on the files sf and lf: its local document
FreshLocalTree(sf, lf) ==
    LET c == Construct(sf, lf)
    IN  Serialise(c.h, Ref(c.lc))

\* every proper prefix of `keys` is a mapping of tree x or is absent from it
PrefixesAreMappings(x, keys) ==
    \A n \in 1..(Len(keys) - 1) :
        TreeAt(x, SubSeq(keys, 1, n)) = Missing \/ TreeAt(x, SubSeq(keys, 1, n)).t = "map"

C6_Step ==
    /\ (ret'.op = "set_local" /\ calls' = calls + 1 /\ ret'.arg # Null
            /\ PrefixesAreMappings(LocalTree, Split(ret'.path)))
           => /\ ~ret'.raised
              /\ get(heap', local_config', shared_config', ret'.path, Null) = ret'.arg
    /\ (ret.op = "set_local" /\ ~ret.raised /\ ret.arg # Null
            /\ ret'.op = "save_local_config" /\ ret'.val = Bool(TRUE))
           => FreshGet(shared_file', local_file', ret.path) = ret.arg

PersistingSetters ==
    {"set_capture_region", "update_capture_region", "set_save_folder", "add_recent_project"}

\* C7: when set_capture_region, set_save_folder or add_recent_project returns and
\* the write succeeded, config.local.json holds the whole in-memory local
\* document and a fresh ConfigManager reads that document; set_shared and
\* set_local change no file.
C7_Step ==
    /\ (ret'.op \in PersistingSetters /\ calls' = calls + 1 /\ ~ret'.raised /\ writable')
           => /\ local_file' = Json(LocalTree')
              /\ FreshLocalTree(shared_file', local_file') = LocalTree'
              /\ TreeAt(local_file'.v, Split(ret'.path)) =
                     IF ret'.op = "add_recent_project"
                     THEN List(<<ret'.arg>> \o
                               SelectSeq(IF LocalRecent.t = "list" THEN LocalRecent.v ELSE <<>>,
                                         LAMBDA p : TitleOf(p) # TitleOf(ret'.arg)))
                     ELSE ret'.arg
    /\ (ret'.op \in {"set_local", "set_shared"} /\ calls' = calls + 1)
           => /\ local_file' = local_file
              /\ shared_file' = shared_file

\* C7, of every step: the persisting setters leave config.local.json equal to the
\* in-memory local document; set_local and set_shared write no file.
C7_Flushed == [][C7_Step]_vars

\* set_save_folder wrote a file that differs from the one loaded
C7_Witness ==
    /\ ret.op = "set_save_folder"
    /\ ~ret.raised
    /\ writable
    /\ calls = 2
    /\ local_file = Json(LocalTree)
    /\ TreeAt(local_file.v, <<"user_preferences", "last_save_folder">>) = Str("/x")
    /\ TreeAt(local_file.v, <<"a", "b", "c">>) = Num(5)

---------------------------------------------------------------------------
(* SpecFolder: get_save_folder with a remembered folder that exists, is     *)
(* gone or was never set, and paths.save_folder in either document.         *)

MaxFolderCalls == 2

Folders == {Str("/here"), Str("/gone"), Str("/s")}

\* the environment: a folder is deleted
RemoveFolder(folder) ==
    /\ folder \in disk
    /\ disk' = disk \ {folder}
    /\ ret' = Result("rmdir", NoPath, folder, Null, FALSE)
    /\ calls' = calls + 1
    /\ UNCHANGED <<heap, shared_config, local_config, shared_file, local_file,
                   gitignore, writable, added>>

InitFolder ==
    \E lf \in { Absent,
                Json(Map([user_preferences |-> Map([last_save_folder |-> Str("/gone")])])),
                Json(Map([user_preferences |-> Map([last_save_folder |-> Str("/here")]),
                          paths |-> Map([save_folder |-> Str("/here")])])),
                Json(Map([paths |-> Map([save_folder |-> Str("")])])),
                Json(Map([paths |-> Map([save_folder |-> Null])])) },
       sf \in { Absent,
                Json(Map([paths |-> Map([save_folder |-> Str("/s")])])),
                Json(Map([user_preferences |-> Map([last_save_folder |-> Str("/here")])])) } :
        InitWith(sf, lf, NoFile, {Str("/here"), Str("/s")}, TRUE)

NextFolder ==
    \/ calls < MaxFolderCalls /\ \E folder \in Folders : SetSaveFolder(folder)
    \/ calls < MaxFolderCalls /\ \E folder \in Folders : RemoveFolder(folder)
    \/ calls < MaxFolderCalls /\ \E value \in {Null, Str("/gone")} :
                                     SetLocal(SaveFolderPath, value)
    \/ GetSaveFolder

SpecFolder == InitFolder /\ [][NextFolder]_vars

LastSaveFolderKeys == <<"user_preferences", "last_save_folder">>
SaveFolderKeys == <<"paths", "save_folder">>

\* the value at `keys` by the precedence of get: local, else shared, else null
Layered(keys) ==
    IF Found(TreeAt(LocalTree, keys)) THEN TreeAt(LocalTree, keys)
    ELSE IF Found(TreeAt(SharedTree, keys)) THEN TreeAt(SharedTree, keys)
    ELSE Null

Remembered == TreeAt(LocalTree, LastSaveFolderKeys)

---------------------------------------------------------------------------
(* Spec: every operation of ConfigManager, on files of every kind. *)

MaxCalls == 2

Init ==
    \E sf \in {Absent, Malformed, Unreadable},
       lf \in {Absent, Json(List(<<>>)), Json(Map([user_preferences |-> Num(5)]))},
       w \in BOOLEAN :
        InitWith(sf, lf, NoFile, {Str("/x")}, w)

Next ==
    \/ calls < MaxCalls /\ LoadSharedConfig
    \/ calls < MaxCalls /\ LoadLocalConfig
    \/ calls < MaxCalls /\ SaveSharedConfig
    \/ calls < MaxCalls /\ SaveLocalConfig
    \/ calls < MaxCalls /\ \E key_path \in {AppTitlePath, ABCPath} : SetShared(key_path, Str("v"))
    \/ calls < MaxCalls /\ \E key_path \in {ABCPath, SaveFolderPath \o <<Dot, "x">>} :
                               SetLocal(key_path, Num(5))
    \/ calls < MaxCalls /\ UpdateCaptureRegion(1, 2, 3, 4)
    \/ calls < MaxCalls /\ SetCaptureRegion(1, 2, 3, 4)
    \/ calls < MaxCalls /\ SetSaveFolder(Str("/x"))
    \/ calls < MaxCalls /\ AddRecentProject(Project("A", calls + 1))
    \/ calls < MaxCalls /\ CreateGitignore
    \/ Get(AppTitlePath, Null)
    \/ GetCaptureRegion
    \/ GetSaveFolder
    \/ GetRecentProjects

Spec == Init /\ [][Next]_vars

\* C5: no operation raises, the construction included, and a save that cannot
\* write returns False.
C5_NeverRaises ==
    /\ ~ret.raised
    /\ (ret.op \in {"save_shared_config", "save_local_config"} /\ ~writable)
           => ret.val = Bool(FALSE)

\* C10: whatever setters ran, the built-in default documents are as __init__
\* built them, and load_shared_config() / load_local_config() with no file or a
\* malformed file returns the built-in default values.
C10_DefaultsKept ==
    /\ Serialise(heap, Ref(DefSharedRoot)) = DefaultSharedTree
    /\ Serialise(heap, Ref(DefLocalRoot)) = DefaultLocalTree
    /\ (ret.op = "load_shared_config" /\ ~ret.raised /\ shared_file.t # "json")
           => Serialise(heap, ret.val) = DefaultSharedTree
    /\ (ret.op = "load_local_config" /\ ~ret.raised /\ local_file.t # "json")
           => Serialise(heap, ret.val) = DefaultLocalTree

====
